---------------------------- MODULE Spec2Model ----------------------------
(***************************************************************************)
(* KSeF invoice monitor: the polling cycle of InvoiceMonitor               *)
(* (src/app/invoice_monitor.py), the session handling of KSeFClient        *)
(* (src/app/ksef_client.py) and the signal handler of src/main.py.         *)
(*                                                                         *)
(* Time is counted in hours.  An instant is an integer number of hours; a  *)
(* datetime is [aware, t] where t is the UTC instant of an aware datetime  *)
(* and the wall-clock reading of a naive one; an ISO string is             *)
(* [wall, off] where off is <<k>> for a "+k" offset suffix and <<>> for a  *)
(* string without offset.  None is <<>> where the value is a sequence and  *)
(* "none" where it is a token.                                             *)
(***************************************************************************)
EXTENDS Integers, Sequences, FiniteSets, TLC

(***************************** bounds ************************************)
\* the clock stops advancing at MaxTime
MaxTime == 1
\* invoices the authority may come to hold
MaxInv == 2
\* trigger events counted per invoice identity
MaxTrig == 2
\* full pages of new invoices the authority returns over a run
MaxPages == 11
\* answers to the status polls a handshake's script spells out
MaxPolls == 2

(************************** program constants ****************************)
\* timedelta(hours=24): the first-run lookback
LOOKBACK_HOURS == 24
\* SEEN_INVOICES_TTL_DAYS
SEEN_INVOICES_TTL_DAYS == 90
\* seen_entries[-1000:]
SEEN_CAP == 1000
\* _wait_for_auth_status(max_attempts=15)
MAX_ATTEMPTS == 15
\* min(1 * (2 ** attempt), 10)
BACKOFF_MAX == 10

(***************************** configuration *****************************)
\* monitoring.subject_types
subject_types == <<"Subject1", "Subject2">>

\* the timezone the monitor runs with: pytz with the default
\* Europe/Warsaw (UTC+1 in winter)
TzConfigs == { [aware |-> TRUE, off |-> 1] }

(******************************* invoices ********************************)
InvIds == 1..MaxInv

\* the metadata of invoice i as the authority returns it: odd invoices
\* carry a ksefReferenceNumber and a ksefNumber, even ones only a ksefNumber
InvoiceOf(i) ==
    [ id   |-> i,
      ref  |-> IF i % 2 = 1 THEN <<"R", i>> ELSE <<>>,
      num  |-> <<"N", i>> ]

\* the authority's record of an invoice: not accepted yet, or accepted at
\* instant t for subject type cat
NotIssued == [t |-> -1, cat |-> "none"]

(************************* datetime conversions **************************)
\* InvoiceMonitor._get_now
_get_now(clk, z) ==
    IF z.aware THEN [aware |-> TRUE, t |-> clk]
               ELSE [aware |-> FALSE, t |-> clk + z.off]

\* datetime.isoformat
isoformat(dt, z) ==
    IF dt.aware THEN [wall |-> dt.t + z.off, off |-> <<z.off>>]
                ELSE [wall |-> dt.t, off |-> <<>>]

\* InvoiceMonitor._parse_datetime
_parse_datetime(s, z) ==
    IF s.off = <<>>
      THEN IF z.aware THEN [aware |-> TRUE, t |-> s.wall - z.off]
                      ELSE [aware |-> FALSE, t |-> s.wall]
      ELSE [aware |-> TRUE, t |-> s.wall - s.off[1]]

\* the "From"/"To" instants get_invoices_metadata sends: an aware datetime
\* is converted to UTC, a naive one is formatted as it is with a "Z" suffix
QueryInstant(dt) == dt.t

\* lexicographic >= of two ISO strings: the wall-clock fields first, then
\* the offset suffix ("" < "+.." < "-..")
OffRank(o) == IF o = <<>> THEN 0 ELSE IF o[1] >= 0 THEN 1 + o[1] ELSE 100 - o[1]
IsoGE(a, b) ==
    \/ a.wall > b.wall
    \/ a.wall = b.wall /\ OffRank(a.off) >= OffRank(b.off)

(****************************** ledger ***********************************)
\* hashlib.sha256(s.encode()).hexdigest(): an injective digest
sha256(s) == <<"sha256", s>>

\* a digest that prefers the ksefNumber
get_invoice_id_hash_secondary_first(invoice) ==
    LET ksef_ref == IF invoice.num # <<>> THEN invoice.num ELSE invoice.ref
    IN  sha256(ksef_ref)

\* InvoiceMonitor.get_invoice_id_hash
get_invoice_id_hash(invoice) ==
    LET ksef_ref == IF invoice.ref # <<>> THEN invoice.ref ELSE invoice.num
    IN  sha256(ksef_ref)

\* the entries of raw_seen load_state keeps (lines 153-157)
KeepRecent(raw_seen, cutoff) == SelectSeq(raw_seen, LAMBDA e : IsoGE(e.ts, cutoff))

DefaultState == [last_check |-> <<>>, seen_invoices |-> <<>>]

\* InvoiceMonitor.load_state
load_state(file, clk) ==
    IF file.exists /\ file.valid
      THEN LET cutoff == [wall |-> clk - SEEN_INVOICES_TTL_DAYS * 24, off |-> <<0>>]
           IN  [last_check    |-> file.last_check,
                seen_invoices |-> KeepRecent(file.seen_invoices, cutoff)]
      ELSE DefaultState

\* a cap that keeps the oldest entries
LastN_oldest(s, n) == IF Len(s) <= n THEN s ELSE SubSeq(s, 1, n)

\* no cap at all
LastN_uncapped(s, n) == s

\* seen_entries[-1000:]
LastN(s, n) == IF Len(s) <= n THEN s ELSE SubSeq(s, Len(s) - n + 1, Len(s))

\* how a write of the state file can end: written; failed before the file
\* was opened (mkdir or open raises), which leaves the file alone; failed
\* after open(..., 'w') truncated it (json.dump or the closing flush
\* raises), which leaves a file that is not valid JSON
WriteOutcomes == {"written", "unopened", "torn"}

\* InvoiceMonitor.save_state: the file after the call; an exception is
\* logged and not raised
save_state(file, state, write) ==
    CASE write = "written" ->
           [exists |-> TRUE, valid |-> TRUE,
            last_check |-> state.last_check,
            seen_invoices |-> state.seen_invoices]
      [] write = "torn" ->
           [exists |-> TRUE, valid |-> FALSE, last_check |-> <<>>,
            seen_invoices |-> <<>>]
      [] OTHER -> file

NoFile == [exists |-> FALSE, valid |-> FALSE, last_check |-> <<>>, seen_invoices |-> <<>>]

(************************** authority / server ***************************)
\* what one authentication handshake meets at the server: whether the
\* challenge, the certificate fetch and the token submission succeed, the
\* answers to the status polls (the last one repeats), and the redeem
\* response
AuthOk    == [challenge |-> TRUE, pubkey |-> TRUE, submit |-> TRUE,
              polls |-> <<"100", "200">>,
              redeem |-> [status |-> "ok", access |-> "A1", refresh |-> "R1"]]
AuthNoChallenge == [AuthOk EXCEPT !.challenge = FALSE]
AuthRejected    == [AuthOk EXCEPT !.polls = <<"100", "450">>]
AuthNoAccess    == [AuthOk EXCEPT !.redeem = [status |-> "ok", access |-> "none", refresh |-> "R1"]]
AuthScripts == {AuthOk, AuthRejected, AuthNoAccess}

\* the refresh endpoint's answers
RefreshScripts == { [status |-> "ok", access |-> "A2"],
                    [status |-> "ok", access |-> "none"],
                    [status |-> "err", access |-> "none"] }

\* the answers to a downstream request: 200, 401, or a transport/HTTP error
Responses == {"ok", "401", "err"}

(******************************* KSeFClient ******************************)
\* KSeFClient.__init__
NewClient == [access_token |-> "none", refresh_token |-> "none", pubkey |-> FALSE]

Min(a, b) == IF a <= b THEN a ELSE b

\* a backoff without the ten-second ceiling
Backoff_uncapped(attempt) == 2 ^ attempt

\* delay = min(1 * (2 ** attempt), 10)
Backoff(attempt) == Min(2 ^ attempt, BACKOFF_MAX)

PollAt(polls, k) == IF k <= Len(polls) THEN polls[k] ELSE polls[Len(polls)]

RECURSIVE PollLoop_lenient(_, _, _)
\* a polling loop that goes on after an unexpected processing code
PollLoop_lenient(polls, attempt, delays) ==
    IF attempt >= MAX_ATTEMPTS
      THEN [ok |-> FALSE, polls |-> attempt, delays |-> delays, reason |-> "timeout"]
      ELSE LET code == PollAt(polls, attempt + 1)
           IN  IF code = "200"
                 THEN [ok |-> TRUE, polls |-> attempt + 1, delays |-> delays,
                       reason |-> "ok"]
                 ELSE PollLoop_lenient(polls, attempt + 1,
                                       Append(delays, Backoff(attempt)))

RECURSIVE PollLoop_error_fails(_, _, _)
\* a polling loop that gives up on the first failed status request
PollLoop_error_fails(polls, attempt, delays) ==
    IF attempt >= MAX_ATTEMPTS
      THEN [ok |-> FALSE, polls |-> attempt, delays |-> delays, reason |-> "timeout"]
      ELSE LET code == PollAt(polls, attempt + 1)
           IN  CASE code = "200" ->
                      [ok |-> TRUE, polls |-> attempt + 1, delays |-> delays, reason |-> "ok"]
                 [] code = "100" ->
                      PollLoop_error_fails(polls, attempt + 1,
                                           Append(delays, Backoff(attempt)))
                 [] code = "err" ->
                      [ok |-> FALSE, polls |-> attempt + 1, delays |-> delays,
                       reason |-> "error"]
                 [] OTHER ->
                      [ok |-> FALSE, polls |-> attempt + 1, delays |-> delays,
                       reason |-> "unexpected"]

RECURSIVE PollLoop(_, _, _)
\* the body of the loop of KSeFClient._wait_for_auth_status from `attempt`
PollLoop(polls, attempt, delays) ==
    IF attempt >= MAX_ATTEMPTS
      THEN [ok |-> FALSE, polls |-> attempt, delays |-> delays, reason |-> "timeout"]
      ELSE LET code == PollAt(polls, attempt + 1)
           IN  CASE code = "200" ->
                      [ok |-> TRUE, polls |-> attempt + 1, delays |-> delays, reason |-> "ok"]
                 [] code = "100" ->
                      PollLoop(polls, attempt + 1, Append(delays, Backoff(attempt)))
                 [] code = "err" ->
                      IF attempt < MAX_ATTEMPTS - 1
                        THEN PollLoop(polls, attempt + 1, Append(delays, Backoff(attempt)))
                        ELSE [ok |-> FALSE, polls |-> attempt + 1, delays |-> delays,
                              reason |-> "error"]
                 [] OTHER ->
                      [ok |-> FALSE, polls |-> attempt + 1, delays |-> delays,
                       reason |-> "unexpected"]

\* KSeFClient._wait_for_auth_status
_wait_for_auth_status(polls) == PollLoop(polls, 0, <<>>)

\* a redeem that reports success whenever the request was answered
_redeem_token_any_answer(c, resp) ==
    IF resp.status # "ok"
      THEN [ok |-> FALSE, c |-> c]
      ELSE [ok |-> TRUE,
            c  |-> [c EXCEPT !.access_token = resp.access,
                             !.refresh_token = resp.refresh]]

\* KSeFClient._redeem_token
_redeem_token(c, resp) ==
    IF resp.status # "ok"
      THEN [ok |-> FALSE, c |-> c]
      ELSE [ok |-> resp.access # "none",
            c  |-> [c EXCEPT !.access_token = resp.access,
                             !.refresh_token = resp.refresh]]

\* an authenticate() that redeems whatever the status polling returned
authenticate_redeem_anyway(c, a) ==
    IF ~a.challenge
      THEN [ok |-> FALSE, c |-> c, reqs |-> <<"challenge">>, delays |-> <<>>]
    ELSE IF ~c.pubkey /\ ~a.pubkey
      THEN [ok |-> FALSE, c |-> c, reqs |-> <<"challenge", "public-key">>, delays |-> <<>>]
    ELSE
      LET c1    == [c EXCEPT !.pubkey = TRUE]
          reqs1 == <<"challenge">> \o (IF c.pubkey THEN <<>> ELSE <<"public-key">>)
                   \o <<"ksef-token">>
      IN  IF ~a.submit
            THEN [ok |-> FALSE, c |-> c1, reqs |-> reqs1, delays |-> <<>>]
            ELSE
              LET w     == _wait_for_auth_status(a.polls)
                  reqs2 == reqs1 \o [k \in 1..w.polls |-> "status"]
                  r     == _redeem_token(c1, a.redeem)
              IN  [ok |-> r.ok, c |-> r.c, reqs |-> reqs2 \o <<"redeem">>,
                   delays |-> w.delays]

\* KSeFClient.authenticate: the result, the client afterwards and the
\* requests issued, in order
authenticate(c, a) ==
    IF ~a.challenge
      THEN [ok |-> FALSE, c |-> c, reqs |-> <<"challenge">>, delays |-> <<>>]
    ELSE IF ~c.pubkey /\ ~a.pubkey
      THEN [ok |-> FALSE, c |-> c, reqs |-> <<"challenge", "public-key">>, delays |-> <<>>]
    ELSE
      LET c1    == [c EXCEPT !.pubkey = TRUE]
          reqs1 == <<"challenge">> \o (IF c.pubkey THEN <<>> ELSE <<"public-key">>)
                   \o <<"ksef-token">>
      IN  IF ~a.submit
            THEN [ok |-> FALSE, c |-> c1, reqs |-> reqs1, delays |-> <<>>]
            ELSE
              LET w     == _wait_for_auth_status(a.polls)
                  reqs2 == reqs1 \o [k \in 1..w.polls |-> "status"]
              IN  IF ~w.ok
                    THEN [ok |-> FALSE, c |-> c1, reqs |-> reqs2, delays |-> w.delays]
                    ELSE LET r == _redeem_token(c1, a.redeem)
                         IN  [ok |-> r.ok, c |-> r.c, reqs |-> reqs2 \o <<"redeem">>,
                              delays |-> w.delays]

\* a refresh that forgets the refresh token it has just used
refresh_access_token_single_use(c, resp) ==
    IF c.refresh_token = "none"
      THEN [ok |-> FALSE, c |-> c, sent |-> FALSE]
    ELSE IF resp.status # "ok"
      THEN [ok |-> FALSE, c |-> c, sent |-> TRUE]
      ELSE [ok |-> TRUE,
            c  |-> [c EXCEPT !.access_token = resp.access, !.refresh_token = "none"],
            sent |-> TRUE]

\* KSeFClient.refresh_access_token
refresh_access_token(c, resp) ==
    IF c.refresh_token = "none"
      THEN [ok |-> FALSE, c |-> c, sent |-> FALSE]
    ELSE IF resp.status # "ok"
      THEN [ok |-> FALSE, c |-> c, sent |-> TRUE]
      ELSE [ok |-> TRUE, c |-> [c EXCEPT !.access_token = resp.access], sent |-> TRUE]

\* a 401 handler that authenticates anew whatever the refresh returned
Handle401_reauth_always(c, s, trace) ==
    LET rf == refresh_access_token(c, s.refresh)
        t1 == IF rf.sent THEN Append(trace, "refresh") ELSE trace
        au == authenticate(rf.c, s.reauth)
        t2 == Append(t1, "authenticate")
    IN  IF au.ok
          THEN [c |-> au.c, trace |-> Append(t2, "request"),
                outcome |-> s.second, saw401 |-> TRUE, refresh_ok |-> rf.ok]
          ELSE [c |-> au.c, trace |-> t2, outcome |-> "reauth_failed",
                saw401 |-> TRUE, refresh_ok |-> rf.ok]

\* a 401 handler that meets a second 401 with one more refresh and request
Handle401_third_attempt(c, s, trace) ==
    LET rf == refresh_access_token(c, s.refresh)
        t1 == IF rf.sent THEN Append(trace, "refresh") ELSE trace
    IN  IF rf.ok
          THEN IF s.second = "401"
                 THEN [c |-> rf.c,
                       trace |-> t1 \o <<"request", "refresh", "request">>,
                       outcome |-> "ok", saw401 |-> TRUE, refresh_ok |-> TRUE]
                 ELSE [c |-> rf.c, trace |-> Append(t1, "request"),
                       outcome |-> s.second, saw401 |-> TRUE, refresh_ok |-> TRUE]
          ELSE LET au == authenticate(rf.c, s.reauth)
                   t2 == Append(t1, "authenticate")
               IN  IF au.ok
                     THEN [c |-> au.c, trace |-> Append(t2, "request"),
                           outcome |-> s.second, saw401 |-> TRUE, refresh_ok |-> FALSE]
                     ELSE [c |-> au.c, trace |-> t2, outcome |-> "reauth_failed",
                           saw401 |-> TRUE, refresh_ok |-> FALSE]

\* the handling of a 401 (lines 406-417, 531-542, 597-608): refresh, else
\* authenticate, then the request once more
Handle401(c, s, trace) ==
    LET rf == refresh_access_token(c, s.refresh)
        t1 == IF rf.sent THEN Append(trace, "refresh") ELSE trace
    IN  IF rf.ok
          THEN [c |-> rf.c, trace |-> Append(t1, "request"), outcome |-> s.second,
                saw401 |-> TRUE, refresh_ok |-> TRUE]
          ELSE LET au == authenticate(rf.c, s.reauth)
                   t2 == Append(t1, "authenticate")
               IN  IF au.ok
                     THEN [c |-> au.c, trace |-> Append(t2, "request"),
                           outcome |-> s.second, saw401 |-> TRUE, refresh_ok |-> FALSE]
                     ELSE [c |-> au.c, trace |-> t2, outcome |-> "reauth_failed",
                           saw401 |-> TRUE, refresh_ok |-> FALSE]

\* a downstream call that authenticates before every request
DownstreamCall_always_authenticates(c, s) ==
    LET pre == authenticate(c, s.pre)
        t0  == <<"authenticate">>
    IN  IF ~pre.ok
          THEN [c |-> pre.c, trace |-> t0, outcome |-> "auth_failed",
                saw401 |-> FALSE, refresh_ok |-> FALSE]
        ELSE IF s.first = "401"
          THEN Handle401(pre.c, s, Append(t0, "request"))
          ELSE [c |-> pre.c, trace |-> Append(t0, "request"), outcome |-> s.first,
                saw401 |-> FALSE, refresh_ok |-> FALSE]

\* the session part shared by get_invoices_metadata, get_invoice_xml and
\* get_invoice_upo: authenticate when there is no access token, send the
\* request, handle a 401.  outcome: "ok", "401" or "err" (the status the
\* last request met), "auth_failed", "reauth_failed"
DownstreamCall(c, s) ==
    LET pre == IF c.access_token = "none" THEN authenticate(c, s.pre)
               ELSE [ok |-> TRUE, c |-> c, reqs |-> <<>>, delays |-> <<>>]
        t0  == IF c.access_token = "none" THEN <<"authenticate">> ELSE <<>>
    IN  IF ~pre.ok
          THEN [c |-> pre.c, trace |-> t0, outcome |-> "auth_failed",
                saw401 |-> FALSE, refresh_ok |-> FALSE]
        ELSE IF s.first = "401"
          THEN Handle401(pre.c, s, Append(t0, "request"))
          ELSE [c |-> pre.c, trace |-> Append(t0, "request"), outcome |-> s.first,
                saw401 |-> FALSE, refresh_ok |-> FALSE]

\* the scripts a downstream call can meet, given the client: the fields a
\* call does not reach are fixed
UnusedAuth == AuthOk
UnusedRefresh == [status |-> "err", access |-> "none"]
Script(pre, first, refresh, reauth, second) ==
    [pre |-> pre, first |-> first, refresh |-> refresh, reauth |-> reauth,
     second |-> second]
\* after a 401 whose refresh did not succeed: the reauthentication and,
\* when it succeeds, the answer to the request sent again
ReauthScripts(pre, c1, refresh) ==
    UNION { { Script(pre, "401", refresh, a, snd) :
                snd \in IF authenticate(c1, a).ok THEN Responses ELSE {"ok"} } :
            a \in AuthScripts }
ScriptsAfter(pre, c1) ==
    { Script(pre, first, UnusedRefresh, UnusedAuth, "ok") : first \in {"ok", "err"} }
    \cup (IF c1.refresh_token = "none"
            THEN ReauthScripts(pre, c1, UnusedRefresh)
            ELSE { Script(pre, "401", rf, UnusedAuth, snd) :
                     rf \in {r \in RefreshScripts : r.status = "ok"}, snd \in Responses }
                 \cup UNION { ReauthScripts(pre, c1, rf) :
                              rf \in {r \in RefreshScripts : r.status # "ok"} })
CallScripts(c) ==
    IF c.access_token # "none" THEN ScriptsAfter(UnusedAuth, c)
    ELSE UNION { IF authenticate(c, pre).ok
                   THEN ScriptsAfter(pre, authenticate(c, pre).c)
                   ELSE { Script(pre, "ok", UnusedRefresh, UnusedAuth, "ok") } :
                 pre \in AuthScripts }

\* the invoices the authority returns for a category and a window, oldest
\* identifier first, at most pageSize of them (pageOffset 0 only)
PAGE_SIZE == 100
RECURSIVE MatchingFrom(_, _, _, _, _)
MatchingFrom(auth, i, cat, from, to) ==
    IF i > MaxInv THEN <<>>
    ELSE (IF auth[i].cat = cat /\ from <= auth[i].t /\ auth[i].t <= to
            THEN <<InvoiceOf(i)>> ELSE <<>>)
         \o MatchingFrom(auth, i + 1, cat, from, to)
QueryMetadata(auth, cat, from, to) ==
    LET all == MatchingFrom(auth, 1, cat, from, to)
    IN  SubSeq(all, 1, Min(Len(all), PAGE_SIZE))

\* a get_invoices_metadata that lets a failed request's exception escape
get_invoices_metadata_raising(c, s, auth, date_from, date_to, subject_type) ==
    LET r == DownstreamCall(c, s)
    IN  [c |-> r.c, trace |-> r.trace, outcome |-> r.outcome,
         saw401 |-> r.saw401, refresh_ok |-> r.refresh_ok,
         raised |-> r.outcome \in {"401", "err"},
         invoices |-> IF r.outcome = "ok"
                        THEN QueryMetadata(auth, subject_type,
                                           QueryInstant(date_from), QueryInstant(date_to))
                        ELSE <<>>]

\* KSeFClient.get_invoices_metadata: the client afterwards, the list
\* returned ([] on every failure) and the call's trace
get_invoices_metadata(c, s, auth, date_from, date_to, subject_type) ==
    LET r == DownstreamCall(c, s)
    IN  [c |-> r.c, trace |-> r.trace, outcome |-> r.outcome,
         saw401 |-> r.saw401, refresh_ok |-> r.refresh_ok, raised |-> FALSE,
         invoices |-> IF r.outcome = "ok"
                        THEN QueryMetadata(auth, subject_type,
                                           QueryInstant(date_from), QueryInstant(date_to))
                        ELSE <<>>]

\* KSeFClient.revoke_current_session (the DELETE may fail; the finally
\* block clears the tokens)
revoke_current_session(c) ==
    IF c.access_token = "none" THEN c
    ELSE [c EXCEPT !.access_token = "none", !.refresh_token = "none"]


(******************************** state **********************************)
VARIABLES
    clock,      \* the current instant
    tz,         \* configuration: the timezone the monitor runs with
    storage,    \* configuration: [save_xml, save_pdf]
    authority,  \* authority[i]: the authority's record of invoice i
    disk,       \* the state file /data/last_check.json
    pc,         \* where the process is: "wait", "query", "process",
                \* "artifacts", "upo", "exited"
    ksef,       \* the KSeFClient's session: access_token, refresh_token, pubkey
    cyc,        \* the locals of the running check_for_new_invoices, with
                \* the outcome of each query of the cycle
    triggered,  \* history: send_invoice_notification calls per invoice digest
    lastCall,   \* history: the downstream call the last step made, if any
    saved,      \* history: "ok" or "failed" when the last step called
                \* save_state, else "none"
    sched,      \* the Scheduler: its configured times of day, last_run and
                \* completed_times_today
    ran         \* history: the <<day, time of day>> pairs should_run()
                \* returned True for

vars == <<clock, tz, storage, authority, disk, pc, ksef, cyc, triggered, lastCall,
          saved, sched, ran>>

\* storage.save_xml / storage.save_pdf
StorageConfigs == { [save_xml |-> FALSE, save_pdf |-> FALSE],
                    [save_xml |-> TRUE,  save_pdf |-> FALSE] }

Digests == { get_invoice_id_hash(InvoiceOf(i)) : i \in InvIds }

NoDatetime == [aware |-> TRUE, t |-> 0]
\* Scheduler.__init__ (lines 42-45), before a schedule is looked at
NoScheduler == [times |-> <<>>, last_run |-> <<>>, completed_times_today |-> {}]

NoCall == [op |-> "none", trace |-> <<>>, outcome |-> "none",
           saw401 |-> FALSE, refresh_ok |-> FALSE]
NoCycle == [active |-> FALSE, now |-> NoDatetime, date_from |-> NoDatetime,
            seen_entries |-> <<>>, seen_hashes |-> {}, ci |-> 0, batch |-> <<>>,
            outcomes |-> <<>>]

Init ==
    /\ clock = 0
    /\ tz \in TzConfigs
    /\ storage \in StorageConfigs
    /\ authority = [i \in InvIds |-> NotIssued]
    /\ disk = NoFile
    /\ pc = "wait"
    /\ ksef = NewClient
    /\ cyc = NoCycle
    /\ triggered = [h \in Digests |-> 0]
    /\ lastCall = NoCall
    /\ saved = "none"
    /\ sched = NoScheduler
    /\ ran = {}

(***************************** environment *******************************)
\* an hour passes (between two cycles: a cycle reads the clock once)
Tick ==
    /\ pc = "wait"
    /\ clock < MaxTime
    /\ clock' = clock + 1
    /\ lastCall' = NoCall
    /\ saved' = "none"
    /\ UNCHANGED <<sched, ran, tz, storage, authority, disk, pc, ksef, cyc, triggered>>

\* the authority accepts invoice i now, for one of the subject types
Issue(i) ==
    /\ pc = "wait"
    /\ authority[i] = NotIssued
    /\ \E cat \in {subject_types[k] : k \in 1..Len(subject_types)} :
         authority' = [authority EXCEPT ![i] = [t |-> clock, cat |-> cat]]
    /\ lastCall' = NoCall
    /\ saved' = "none"
    /\ UNCHANGED <<sched, ran, clock, tz, storage, disk, pc, ksef, cyc, triggered>>

\* a cycle start that looks back 24 hours whatever was persisted
StartCycle_lookback_only ==
    /\ pc = "wait"
    /\ LET state == load_state(disk, clock)
           now   == _get_now(clock, tz)
           date_from == [now EXCEPT !.t = now.t - LOOKBACK_HOURS]
       IN  cyc' = [active |-> TRUE, now |-> now, date_from |-> date_from,
                   seen_entries |-> state.seen_invoices,
                   seen_hashes |-> { state.seen_invoices[k].h :
                                       k \in 1..Len(state.seen_invoices) },
                   ci |-> 1, batch |-> <<>>, outcomes |-> <<>>]
    /\ pc' = "query"
    /\ lastCall' = NoCall
    /\ saved' = "none"
    /\ UNCHANGED <<sched, ran, clock, tz, storage, authority, disk, ksef, triggered>>

(************************ check_for_new_invoices *************************)
\* lines 208-227: load the state, compute the window, build the ledger
StartCycle ==
    /\ pc = "wait"
    /\ LET state == load_state(disk, clock)
           now   == _get_now(clock, tz)
           date_from == IF state.last_check # <<>>
                          THEN _parse_datetime(state.last_check[1], tz)
                          ELSE [now EXCEPT !.t = now.t - LOOKBACK_HOURS]
       IN  cyc' = [active |-> TRUE, now |-> now, date_from |-> date_from,
                   seen_entries |-> state.seen_invoices,
                   seen_hashes |-> { state.seen_invoices[k].h :
                                       k \in 1..Len(state.seen_invoices) },
                   ci |-> 1, batch |-> <<>>, outcomes |-> <<>>]
    /\ pc' = "query"
    /\ lastCall' = NoCall
    /\ saved' = "none"
    /\ UNCHANGED <<sched, ran, clock, tz, storage, authority, disk, ksef, triggered>>

\* how a query ended for the cycle: a list of invoices, a transport/HTTP
\* error, or no credential
OutcomeClass(o) ==
    CASE o = "ok" -> "ok"
      [] o \in {"auth_failed", "reauth_failed"} -> "credential"
      [] OTHER -> "error"

CallRecord(op, r) ==
    [op |-> op, trace |-> r.trace, outcome |-> r.outcome,
     saw401 |-> r.saw401, refresh_ok |-> r.refresh_ok]

\* run(), lines 456-464: an exception of the cycle is logged, an error
\* notification is sent and the loop waits for the next run
CycleRaised ==
    /\ cyc' = NoCycle
    /\ pc' = "wait"

\* lines 229-232: the metadata query of the category at hand
Query ==
    /\ pc = "query"
    /\ \E s \in CallScripts(ksef) :
         LET r == get_invoices_metadata(ksef, s, authority, cyc.date_from, cyc.now,
                                        subject_types[cyc.ci])
         IN  /\ ksef' = r.c
             /\ IF r.raised
                  THEN CycleRaised
                  ELSE /\ cyc' = [cyc EXCEPT !.batch = r.invoices,
                                             !.outcomes = Append(@, OutcomeClass(r.outcome))]
                       /\ pc' = "process"
             /\ lastCall' = CallRecord("metadata", r)
    /\ saved' = "none"
    /\ UNCHANGED <<sched, ran, clock, tz, storage, authority, disk, triggered>>

\* lines 234-237: the invoice at hand is in the ledger already
SkipSeen ==
    /\ pc = "process"
    /\ cyc.batch # <<>>
    /\ get_invoice_id_hash(Head(cyc.batch)) \in cyc.seen_hashes
    /\ cyc' = [cyc EXCEPT !.batch = Tail(@)]
    /\ lastCall' = NoCall
    /\ saved' = "none"
    /\ UNCHANGED <<sched, ran, clock, tz, storage, authority, disk, pc, ksef, triggered>>

\* a marking that appends the entry but leaves the set of the cycle's
\* digests as it was loaded
Marked_entry_only(c, h, z) ==
    [c EXCEPT !.seen_entries = Append(@, [h |-> h, ts |-> isoformat(c.now, z)])]

\* lines 239-240: mark the invoice processed
Marked(c, h, z) ==
    [c EXCEPT !.seen_hashes = @ \cup {h},
              !.seen_entries = Append(@, [h |-> h, ts |-> isoformat(c.now, z)])]

\* lines 239-252: a new invoice is marked and its notification is sent
\* (success or not is only logged)
Notify ==
    /\ pc = "process"
    /\ cyc.batch # <<>>
    /\ LET h == get_invoice_id_hash(Head(cyc.batch))
       IN  /\ h \notin cyc.seen_hashes
           /\ triggered[h] < MaxTrig
           /\ cyc' = Marked(cyc, h, tz)
           /\ triggered' = [triggered EXCEPT ![h] = @ + 1]
    /\ pc' = "artifacts"
    /\ lastCall' = NoCall
    /\ saved' = "none"
    /\ UNCHANGED <<sched, ran, clock, tz, storage, authority, disk, ksef>>

\* lines 239-244: build_template_context raises on the invoice's metadata
\* (a null seller or buyer) after the invoice was marked
ContextRaise ==
    /\ pc = "process"
    /\ cyc.batch # <<>>
    /\ get_invoice_id_hash(Head(cyc.batch)) \notin cyc.seen_hashes
    /\ CycleRaised
    /\ lastCall' = NoCall
    /\ saved' = "none"
    /\ UNCHANGED <<sched, ran, clock, tz, storage, authority, disk, ksef, triggered>>

\* the invoice at hand is done (line 234, the next iteration)
InvoiceDone(c) == [c EXCEPT !.batch = Tail(@)]

\* _save_invoice_artifacts, lines 347-348: nothing to store
ArtifactsDisabled ==
    /\ pc = "artifacts"
    /\ ~storage.save_xml /\ ~storage.save_pdf
    /\ cyc' = InvoiceDone(cyc)
    /\ pc' = "process"
    /\ lastCall' = NoCall
    /\ saved' = "none"
    /\ UNCHANGED <<sched, ran, clock, tz, storage, authority, disk, ksef, triggered>>

\* _save_invoice_artifacts, lines 361-373: the date formatting, mkdir or
\* resolve raises (none of them is inside a try)
ArtifactsRaise ==
    /\ pc = "artifacts"
    /\ storage.save_xml \/ storage.save_pdf
    /\ CycleRaised
    /\ lastCall' = NoCall
    /\ saved' = "none"
    /\ UNCHANGED <<sched, ran, clock, tz, storage, authority, disk, ksef, triggered>>

\* _save_invoice_artifacts, lines 378-409: fetch the XML; without it
\* nothing is stored; with it the files are written (failures are logged)
FetchXml ==
    /\ pc = "artifacts"
    /\ storage.save_xml \/ storage.save_pdf
    /\ \E s \in CallScripts(ksef) :
         LET r == DownstreamCall(ksef, s)
         IN  /\ ksef' = r.c
             /\ lastCall' = CallRecord("xml", r)
             /\ IF r.outcome = "ok" /\ storage.save_xml
                   /\ subject_types[cyc.ci] = "Subject1"
                  THEN pc' = "upo" /\ UNCHANGED cyc
                  ELSE pc' = "process" /\ cyc' = InvoiceDone(cyc)
    /\ saved' = "none"
    /\ UNCHANGED <<sched, ran, clock, tz, storage, authority, disk, triggered>>

\* _save_invoice_artifacts, lines 412-423: fetch the UPO of a sales invoice
FetchUpo ==
    /\ pc = "upo"
    /\ \E s \in CallScripts(ksef) :
         LET r == DownstreamCall(ksef, s)
         IN  /\ ksef' = r.c
             /\ lastCall' = CallRecord("upo", r)
    /\ cyc' = InvoiceDone(cyc)
    /\ pc' = "process"
    /\ saved' = "none"
    /\ UNCHANGED <<sched, ran, clock, tz, storage, authority, disk, triggered>>

\* line 229: the batch is done, on to the next category
NextCategory ==
    /\ pc = "process"
    /\ cyc.batch = <<>>
    /\ cyc.ci < Len(subject_types)
    /\ cyc' = [cyc EXCEPT !.ci = @ + 1]
    /\ pc' = "query"
    /\ lastCall' = NoCall
    /\ saved' = "none"
    /\ UNCHANGED <<sched, ran, clock, tz, storage, authority, disk, ksef, triggered>>

\* the record lines 264-265 hand to save_state
StateToSave(c, z) ==
    [last_check |-> <<isoformat(c.now, z)>>,
     seen_invoices |-> LastN(c.seen_entries, SEEN_CAP)]

\* lines 260-266: all categories are done; record the window's end and the
\* newest entries of the ledger
SaveCycle ==
    /\ pc = "process"
    /\ cyc.batch = <<>>
    /\ cyc.ci = Len(subject_types)
    /\ \E write \in WriteOutcomes :
         /\ disk' = save_state(disk, StateToSave(cyc, tz), write)
         /\ saved' = IF write = "written" THEN "ok" ELSE "failed"
    /\ cyc' = NoCycle
    /\ pc' = "wait"
    /\ lastCall' = NoCall
    /\ UNCHANGED <<sched, ran, clock, tz, storage, authority, ksef, triggered>>

(****************************** main.py **********************************)
\* signal_handler and InvoiceMonitor.shutdown: revoke the session, then
\* sys.exit(0); whatever the cycle held in memory is gone
Signal ==
    /\ pc # "exited"
    /\ ksef' = revoke_current_session(ksef)
    /\ cyc' = NoCycle
    /\ pc' = "exited"
    /\ lastCall' = NoCall
    /\ saved' = "none"
    /\ UNCHANGED <<sched, ran, clock, tz, storage, authority, disk, triggered>>

\* main(): the next process
Restart ==
    /\ pc = "exited"
    /\ ksef' = NewClient
    /\ pc' = "wait"
    /\ lastCall' = NoCall
    /\ saved' = "none"
    /\ UNCHANGED <<sched, ran, clock, tz, storage, authority, disk, cyc, triggered>>

Next ==
    \/ Tick
    \/ \E i \in InvIds : Issue(i)
    \/ StartCycle
    \/ Query
    \/ SkipSeen
    \/ Notify
    \/ ContextRaise
    \/ ArtifactsDisabled
    \/ ArtifactsRaise
    \/ FetchXml
    \/ FetchUpo
    \/ NextCategory
    \/ SaveCycle
    \/ Signal
    \/ Restart

Spec == Init /\ [][Next]_vars

(************************* the ledger on its own *************************)
\* The ledger of lines 222-227, 234-240 and 264-266 with load_state and
\* save_state, whatever the authority returns: a query returns nothing,
\* invoice 1 (seen before or not), or a full page of invoices never seen
\* before.

\* lines 234-254 for each invoice of a batch of n unseen invoices, ids
\* from..from+n-1, none of which raises
MarkAll(c, from, n, z) ==
    LET h(k) == get_invoice_id_hash(InvoiceOf(from + k - 1))
    IN  [c EXCEPT !.seen_hashes = @ \cup { h(k) : k \in 1..n },
                  !.seen_entries = @ \o [k \in 1..n |->
                                           [h |-> h(k), ts |-> isoformat(c.now, z)]]]

\* the id past every invoice the ledger holds
NextFresh(c) ==
    LET ids == { c.seen_entries[k].h[2][2] : k \in 1..Len(c.seen_entries) }
    IN  1 + CHOOSE m \in ids \cup {MaxInv} : \A j \in ids \cup {MaxInv} : j <= m

\* lines 229-232: the query returns nothing or invoice 1
ReturnInvoice ==
    /\ pc = "query"
    /\ \E b \in {<<>>, <<InvoiceOf(1)>>} :
         cyc' = [cyc EXCEPT !.batch = b, !.outcomes = Append(@, "ok")]
    /\ pc' = "process"
    /\ lastCall' = NoCall
    /\ saved' = "none"
    /\ UNCHANGED <<sched, ran, clock, tz, storage, authority, disk, ksef, triggered>>

\* lines 229-254: the query returns a full page of invoices never seen
\* before and each of them is marked and notified
FreshPage ==
    /\ pc = "query"
    /\ NextFresh(cyc) <= MaxInv + (MaxPages - 1) * PAGE_SIZE + 1
    /\ cyc' = [MarkAll(cyc, NextFresh(cyc), PAGE_SIZE, tz)
                 EXCEPT !.outcomes = Append(@, "ok")]
    /\ pc' = "process"
    /\ lastCall' = NoCall
    /\ saved' = "none"
    /\ UNCHANGED <<sched, ran, clock, tz, storage, authority, disk, ksef, triggered>>

\* lines 260-266 with a write that goes through
SaveWritten == SaveCycle /\ saved' = "ok"

LedgerInit == Init /\ ~storage.save_xml

LedgerNext ==
    \/ StartCycle
    \/ ReturnInvoice
    \/ FreshPage
    \/ SkipSeen
    \/ Notify
    \/ ArtifactsDisabled
    \/ NextCategory
    \/ SaveWritten

SpecLedger == LedgerInit /\ [][LedgerNext]_vars

(************************* the client on its own *************************)
\* The KSeFClient whatever the server answers: handshakes with every
\* combination of step results and status-poll answers, downstream calls
\* with every combination of answers, and session revocations.

\* the processing codes of a status poll; "err" is a transport/HTTP error
PollCodes == {"100", "200", "450", "err"}

\* the answers to the status polls: a short list whose last answer repeats,
\* or one answer up to the last attempt and another one there
PollScripts ==
    UNION { [1..n -> PollCodes] : n \in 1..MaxPolls }
    \cup { [k \in 1..MAX_ATTEMPTS |-> IF k < MAX_ATTEMPTS THEN c1 ELSE c2] :
             c1 \in {"100", "err"}, c2 \in PollCodes }

\* the redeem endpoint's answers
RedeemResponses ==
    { [status |-> "ok",  access |-> "A1",   refresh |-> "R1"],
      [status |-> "ok",  access |-> "A3",   refresh |-> "R3"],
      [status |-> "ok",  access |-> "none", refresh |-> "R1"],
      [status |-> "ok",  access |-> "A1",   refresh |-> "none"],
      [status |-> "err", access |-> "none", refresh |-> "none"] }

\* what a handshake can meet: a failure of the challenge, of the
\* certificate fetch or of the token submission, or the answers to the
\* status polls and, where they end with success, to the redeem
AuthInputs ==
    { [AuthOk EXCEPT !.challenge = FALSE], [AuthOk EXCEPT !.pubkey = FALSE],
      [AuthOk EXCEPT !.submit = FALSE] }
    \cup UNION { { [AuthOk EXCEPT !.polls = p, !.redeem = r] :
                     r \in IF _wait_for_auth_status(p).ok
                             THEN RedeemResponses ELSE {AuthOk.redeem} } :
                 p \in PollScripts }

\* the operation of the last step with what it met and what it did
ClientRecord(op, script, r, reqs, delays) ==
    [op |-> op, trace |-> r.trace, outcome |-> r.outcome, saw401 |-> r.saw401,
     refresh_ok |-> r.refresh_ok, script |-> script, reqs |-> reqs,
     delays |-> delays]

\* a call of authenticate()
Authenticate ==
    /\ \E a \in AuthInputs :
         LET r == authenticate(ksef, a)
         IN  /\ ksef' = r.c
             /\ lastCall' = ClientRecord("authenticate", a,
                                [trace |-> <<"authenticate">>,
                                 outcome |-> IF r.ok THEN "ok" ELSE "auth_failed",
                                 saw401 |-> FALSE, refresh_ok |-> FALSE],
                                r.reqs, r.delays)
    /\ UNCHANGED <<sched, ran, clock, tz, storage, authority, disk, pc, cyc, triggered, saved>>

\* a call of get_invoices_metadata, get_invoice_xml or get_invoice_upo
ClientCall ==
    /\ \E op \in {"metadata", "xml", "upo"}, s \in CallScripts(ksef) :
         LET r == DownstreamCall(ksef, s)
         IN  /\ ksef' = r.c
             /\ lastCall' = ClientRecord(op, s, r, <<>>, <<>>)
    /\ UNCHANGED <<sched, ran, clock, tz, storage, authority, disk, pc, cyc, triggered, saved>>

\* a call of revoke_current_session(); the DELETE succeeds or fails
Revoke ==
    /\ ksef' = revoke_current_session(ksef)
    /\ \E answer \in {"ok", "err"} :
         lastCall' = ClientRecord("revoke", answer,
                        [trace |-> <<>>, outcome |-> "none", saw401 |-> FALSE,
                         refresh_ok |-> FALSE], <<>>, <<>>)
    /\ UNCHANGED <<sched, ran, clock, tz, storage, authority, disk, pc, cyc, triggered, saved>>

ClientInit == Init /\ ~storage.save_xml

ClientNext ==
    \/ Authenticate
    \/ ClientCall
    \/ Revoke

SpecClient == ClientInit /\ [][ClientNext]_vars

(********************* the duplicate check on its own ********************)
\* invoices a returned batch may hold
MaxBatch == 2

\* identifiers as the authority spells them
K1 == <<"K", 1>>
K2 == <<"K", 2>>

\* four invoices (id tells them apart): one with a ksefReferenceNumber and
\* a ksefNumber, one with a ksefNumber only, and two that carry neither
\* (or carry them as empty strings: `x or y` and `.get(k, '')` treat both
\* alike)
BatchInvoices ==
    { [id |-> 1, ref |-> K1,   num |-> K2],
      [id |-> 2, ref |-> <<>>, num |-> K2],
      [id |-> 3, ref |-> <<>>, num |-> <<>>],
      [id |-> 4, ref |-> <<>>, num |-> <<>>] }

Batches == UNION { [1..n -> BatchInvoices] : n \in 0..MaxBatch }

\* what the authority returns for each subject type, cycle after cycle
ServerScripts == [ {subject_types[k] : k \in 1..Len(subject_types)} -> Batches ]

BatchDigests == { get_invoice_id_hash(v) : v \in BatchInvoices }

\* the ISO string a cycle running `age` hours ago wrote for its start
WrittenAgo(age, z) == isoformat([aware |-> TRUE, t |-> 0 - age], z)

\* the state file before the process starts: missing, unreadable (not
\* valid JSON), written an hour ago by a cycle that had marked K1, or
\* written an hour ago with a ledger whose entries are ninety days and two
\* hours, ninety days and one hour, and ninety days less one hour old
StateFiles(z) ==
    LET ttl == SEEN_INVOICES_TTL_DAYS * 24
    IN  { NoFile,
          [exists |-> TRUE, valid |-> FALSE, last_check |-> <<>>,
           seen_invoices |-> <<>>],
          [exists |-> TRUE, valid |-> TRUE, last_check |-> <<WrittenAgo(1, z)>>,
           seen_invoices |-> <<[h |-> sha256(K1), ts |-> WrittenAgo(1, z)]>>],
          [exists |-> TRUE, valid |-> TRUE, last_check |-> <<WrittenAgo(1, z)>>,
           seen_invoices |-> << [h |-> sha256(K2),   ts |-> WrittenAgo(ttl + 2, z)],
                                [h |-> sha256(K1),   ts |-> WrittenAgo(ttl + 1, z)],
                                [h |-> sha256(<<>>), ts |-> WrittenAgo(ttl - 1, z)] >>] }

\* lines 229-232: the query of the category at hand returns its batch
ReturnBatch ==
    /\ pc = "query"
    /\ cyc' = [cyc EXCEPT !.batch = authority[subject_types[cyc.ci]],
                          !.outcomes = Append(@, "ok")]
    /\ pc' = "process"
    /\ lastCall' = NoCall
    /\ saved' = "none"
    /\ UNCHANGED <<sched, ran, clock, tz, storage, authority, disk, ksef, triggered>>

DedupInit ==
    /\ clock = 0
    /\ tz \in TzConfigs
    /\ storage = [save_xml |-> FALSE, save_pdf |-> FALSE]
    /\ authority \in ServerScripts
    /\ disk \in StateFiles(tz)
    /\ pc = "wait"
    /\ ksef = NewClient
    /\ cyc = NoCycle
    /\ triggered = [h \in BatchDigests |-> 0]
    /\ lastCall = NoCall
    /\ saved = "none"
    /\ sched = NoScheduler
    /\ ran = {}

DedupNext ==
    \/ StartCycle
    \/ ReturnBatch
    \/ SkipSeen
    \/ Notify
    \/ ArtifactsDisabled
    \/ NextCategory
    \/ SaveCycle

SpecDedup == DedupInit /\ [][DedupNext]_vars

(************************** shutdown on its own **************************)
\* a shutdown that stops the metrics before it revokes the session
shutdown_metrics_first(c, metrics, answer) ==
    [c     |-> revoke_current_session(c),
     trace |-> (IF metrics THEN <<"metrics.shutdown">> ELSE <<>>)
               \o <<"revoke_current_session">>
               \o (IF c.access_token # "none" THEN <<"DELETE">> ELSE <<>>)
               \o <<"send_notification">>]

\* InvoiceMonitor.shutdown: the client afterwards and what was done, in
\* order.  metrics: a PrometheusMetrics object is configured; answer: what
\* the DELETE of revoke_current_session meets ("ok", or "err" for a
\* transport/HTTP error, which is logged)
shutdown(c, metrics, answer) ==
    [c     |-> revoke_current_session(c),
     trace |-> <<"revoke_current_session">>
               \o (IF c.access_token # "none" THEN <<"DELETE">> ELSE <<>>)
               \o (IF metrics THEN <<"metrics.shutdown">> ELSE <<>>)
               \o <<"send_notification">>]

\* the handshakes that sleep in the status polling at least once
BackoffInputs ==
    { a \in AuthInputs : a.challenge /\ a.pubkey /\ a.submit
                         /\ a.polls[1] \in {"100", "err"} /\ Len(a.polls) > 1 }

\* authenticate() has reached a time.sleep of _wait_for_auth_status
\* (lines 258-260, 268-270): the certificate is cached, the tokens are
\* still the ones held before
EnterBackoff ==
    /\ pc = "wait"
    /\ pc' = "backoff"
    /\ ksef' = [ksef EXCEPT !.pubkey = TRUE]
    /\ lastCall' = NoCall
    /\ UNCHANGED <<sched, ran, clock, tz, storage, authority, disk, cyc, triggered, saved>>

\* the sleep is over and the handshake runs to its end
LeaveBackoff ==
    /\ pc = "backoff"
    /\ pc' = "wait"
    /\ \E a \in BackoffInputs :
         LET r == authenticate(ksef, a)
         IN  /\ ksef' = r.c
             /\ lastCall' = ClientRecord("authenticate", a,
                                [trace |-> <<"authenticate">>,
                                 outcome |-> IF r.ok THEN "ok" ELSE "auth_failed",
                                 saw401 |-> FALSE, refresh_ok |-> FALSE],
                                r.reqs, r.delays)
    /\ UNCHANGED <<sched, ran, clock, tz, storage, authority, disk, cyc, triggered, saved>>

\* the client at work between two signals
ClientWorks == pc = "wait" /\ (Authenticate \/ ClientCall)

\* main.signal_handler: SIGINT or SIGTERM arrives wherever the process
\* is; shutdown() runs and sys.exit(0) raises SystemExit, which no
\* `except Exception` of the program catches
SignalReceived ==
    /\ pc # "exited"
    /\ pc' = "exited"
    /\ \E metrics \in BOOLEAN, answer \in {"ok", "err"} :
         LET r == shutdown(ksef, metrics, answer)
         IN  /\ ksef' = r.c
             /\ lastCall' = ClientRecord("shutdown",
                                [at |-> pc, metrics |-> metrics, answer |-> answer],
                                [trace |-> Append(r.trace, "sys.exit"),
                                 outcome |-> "none", saw401 |-> FALSE,
                                 refresh_ok |-> FALSE],
                                <<>>, <<>>)
    /\ UNCHANGED <<sched, ran, clock, tz, storage, authority, disk, cyc, triggered, saved>>

ShutdownNext ==
    \/ ClientWorks
    \/ EnterBackoff
    \/ LeaveBackoff
    \/ SignalReceived
    \/ Restart

SpecShutdown == ClientInit /\ [][ShutdownNext]_vars

(************************* the run loop on its own ***********************)
\* Here the clock counts minutes, a calendar day has DayLen of them, and a
\* time of day ("HH:MM") is a minute of the day.
\* minutes of a calendar day (1440, shortened)
DayLen == 3
\* the clock stops advancing after MaxDays days
MaxDays == 2
\* the longest a cycle takes, in minutes
MaxCycle == 2

\* datetime.date() and datetime.time() of the naive datetime.now()
DateOf(now) == now \div DayLen
TimeOf(now) == now % DayLen

\* schedule.time of the daily mode after _parse_times: one or two times of
\* day, sorted
Schedules ==
    { <<t>> : t \in 0..(DayLen - 1) }
    \cup { <<p[1], p[2]>> :
             p \in { q \in (0..(DayLen - 1)) \X (0..(DayLen - 1)) : q[1] < q[2] } }

\* the configured times not completed today that `now` has reached
Due(times, completed, now) ==
    { k \in 1..Len(times) : times[k] \notin completed /\ TimeOf(now) >= times[k] }

\* Scheduler.should_run, daily mode (lines 149-154, 176-196): the
\* scheduler afterwards, the value returned and the configured time the
\* True is for (<<>> for the first run)
should_run(s, now) ==
    IF s.last_run = <<>>
      THEN [s |-> [s EXCEPT !.last_run = <<now>>], ret |-> TRUE, key |-> <<>>]
      ELSE LET completed == IF DateOf(s.last_run[1]) < DateOf(now)
                              THEN {} ELSE s.completed_times_today
               due == Due(s.times, completed, now)
           IN  IF due = {}
                 THEN [s |-> [s EXCEPT !.completed_times_today = completed],
                       ret |-> FALSE, key |-> <<>>]
                 ELSE LET k == CHOOSE j \in due : \A i \in due : j <= i
                      IN  [s |-> [s EXCEPT !.last_run = <<now>>,
                                           !.completed_times_today =
                                               completed \cup {s.times[k]}],
                           ret |-> TRUE, key |-> <<s.times[k]>>]

\* Scheduler._calculate_sleep_time, daily mode (lines 341-343): 60 seconds
_calculate_sleep_time(s, now) == 1

\* what an iteration of the loop of run() did, for the history
LoopRecord(op, ret, key, outcome, logged, error_notification) ==
    [op |-> op, ret |-> ret, key |-> key, outcome |-> outcome, logged |-> logged,
     error_notification |-> error_notification, trace |-> <<>>,
     saw401 |-> FALSE, refresh_ok |-> FALSE]

\* run(), line 450: should_run() is asked
ShouldRun ==
    /\ pc = "should_run"
    /\ LET r == should_run(sched, clock)
       IN  /\ sched' = r.s
           /\ pc' = IF r.ret THEN "check" ELSE "sleep"
           /\ ran' = IF r.ret /\ r.key # <<>>
                       THEN ran \cup {<<DateOf(clock), r.key[1]>>} ELSE ran
           /\ lastCall' = LoopRecord("should_run", r.ret, r.key, "none", FALSE, FALSE)
    /\ UNCHANGED <<clock, tz, storage, authority, disk, ksef, cyc, triggered, saved>>

\* run(), lines 451-454: check_for_new_invoices returns, with every query
\* answered or with the authentication failed (which the client logs and
\* answers with an empty list)
CheckReturns ==
    /\ pc = "check"
    /\ \E d \in 0..MaxCycle, outcome \in {"ok", "auth_failed"} :
         /\ clock + d <= DayLen * MaxDays
         /\ clock' = clock + d
         /\ lastCall' = LoopRecord("check", TRUE, <<>>, outcome,
                                   outcome = "auth_failed", FALSE)
    /\ pc' = "sleep"
    /\ UNCHANGED <<tz, storage, authority, disk, ksef, cyc, triggered, saved,
                   sched, ran>>

\* a run loop whose handler lets the exception of the cycle go on
CheckRaises_fatal ==
    /\ pc = "check"
    /\ \E d \in 0..MaxCycle :
         /\ clock + d <= DayLen * MaxDays
         /\ clock' = clock + d
    /\ lastCall' = LoopRecord("check", TRUE, <<>>, "raised", TRUE, FALSE)
    /\ pc' = "exited"
    /\ UNCHANGED <<tz, storage, authority, disk, ksef, cyc, triggered, saved,
                   sched, ran>>

\* run(), lines 456-461: check_for_new_invoices raises; the exception is
\* logged and send_error_notification is called (it returns False when no
\* channel takes the message and does not raise)
CheckRaises ==
    /\ pc = "check"
    /\ \E d \in 0..MaxCycle :
         /\ clock + d <= DayLen * MaxDays
         /\ clock' = clock + d
    /\ \E sent \in BOOLEAN :
         lastCall' = [LoopRecord("check", TRUE, <<>>, "raised", TRUE, TRUE)
                        EXCEPT !.trace = <<IF sent THEN "sent" ELSE "failed">>]
    /\ pc' = "sleep"
    /\ UNCHANGED <<tz, storage, authority, disk, ksef, cyc, triggered, saved,
                   sched, ran>>

\* run(), line 464: wait_until_next_run sleeps
WaitUntilNextRun ==
    /\ pc = "sleep"
    /\ clock + _calculate_sleep_time(sched, clock) <= DayLen * MaxDays
    /\ clock' = clock + _calculate_sleep_time(sched, clock)
    /\ pc' = "should_run"
    /\ lastCall' = LoopRecord("sleep", FALSE, <<>>, "none", FALSE, FALSE)
    /\ UNCHANGED <<tz, storage, authority, disk, ksef, cyc, triggered, saved,
                   sched, ran>>

\* the process starts at some minute of day 0 with some daily schedule
RunInit ==
    /\ clock \in 0..(DayLen - 1)
    /\ tz \in TzConfigs
    /\ storage = [save_xml |-> FALSE, save_pdf |-> FALSE]
    /\ authority = [i \in InvIds |-> NotIssued]
    /\ disk = NoFile
    /\ pc = "should_run"
    /\ ksef = NewClient
    /\ cyc = NoCycle
    /\ triggered = [h \in Digests |-> 0]
    /\ lastCall = NoCall
    /\ saved = "none"
    /\ sched \in { [NoScheduler EXCEPT !.times = ts] : ts \in Schedules }
    /\ ran = {}

RunNext ==
    \/ ShouldRun
    \/ CheckReturns
    \/ CheckRaises
    \/ WaitUntilNextRun

SpecRun == RunInit /\ [][RunNext]_vars

(******************************* claims **********************************)
\* the digests of the persisted ledger
PersistedHashes(file) == { file.seen_invoices[k].h : k \in 1..Len(file.seen_invoices) }

\* a step that ends the running cycle with the process alive: the save of
\* lines 260-266 or an exception caught by run()
CycleEnds == cyc.active /\ pc' = "wait"

\* the step is the save of lines 260-266
SaveStep == CycleEnds /\ cyc.batch = <<>>

\* the step is an exception escaping the notification or artifact step of
\* the invoice at hand
RaiseStep == CycleEnds /\ cyc.batch # <<>>

\* the issued invoices
Issued == { i \in InvIds : authority[i] # NotIssued }

\* C1: over any sequence of cycles, shutdowns and restarts included, no
\* invoice identity is the subject of more than one trigger event.
C1_AtMostOneTrigger == \A h \in Digests : triggered[h] <= 1

\* C2: when the notification or artifact step raises for a new invoice,
\* that invoice stays recorded as processed (in the ledger later cycles
\* read), so that no later cycle triggers it again.
C2_RaiseKeepsMark ==
    [][ RaiseStep =>
          get_invoice_id_hash(Head(cyc.batch))
              \in PersistedHashes(disk') \cup cyc'.seen_hashes ]_vars

\* C3: a cycle in which a query could not obtain a credential (the
\* authentication or the re-authentication failed) is aborted and leaves
\* the persisted last_check as it was.
C3_CredentialFailureKeepsCursor ==
    [][ (cyc.active /\ \E k \in 1..Len(cyc.outcomes) : cyc.outcomes[k] = "credential")
          => disk'.last_check = disk.last_check ]_vars

\* C4: a failure or exception of the notification or artifact step for one
\* new invoice does not keep the other new invoices of the cycle from their
\* trigger event: when the cycle ends, every invoice returned after the one
\* at hand is in the ledger.
C4_OthersStillTrigger ==
    [][ CycleEnds =>
          \A k \in 2..Len(cyc.batch) :
              get_invoice_id_hash(cyc.batch[k]) \in cyc.seen_hashes ]_vars

\* C5: every cycle sets last_check to the cycle's "now" and persists the
\* state, whatever happened downstream: a cycle never ends without the
\* save having been made (a failed write aside).
C5_AlwaysPersisted ==
    [][ CycleEnds =>
          \/ saved' = "failed"
          \/ saved' = "ok" /\ disk'.last_check = <<isoformat(cyc.now, tz)>> ]_vars

\* C6: a transport or HTTP error of the metadata query of one category
\* gives that category zero invoices and nothing else: the cycle goes on,
\* every category is queried, the invoices of the categories whose query
\* succeeded have their trigger event, and the state is saved with
\* last_check = now.
C6_FailedCategoryIsEmpty ==
    [][ /\ (lastCall'.op = "metadata" /\ OutcomeClass(lastCall'.outcome) = "error")
           => /\ pc' = "process"
              /\ cyc' = [cyc EXCEPT !.batch = <<>>, !.outcomes = Append(@, "error")]
              /\ disk' = disk
              /\ triggered' = triggered
        /\ (SaveStep /\ \E k \in 1..Len(cyc.outcomes) : cyc.outcomes[k] = "error")
           => /\ Len(cyc.outcomes) = Len(subject_types)
              /\ \A i \in Issued :
                   \A k \in 1..Len(subject_types) :
                     ( /\ cyc.outcomes[k] = "ok"
                       /\ authority[i].cat = subject_types[k]
                       /\ authority[i].t >= QueryInstant(cyc.date_from)
                       /\ authority[i].t <= QueryInstant(cyc.now) )
                     => triggered[get_invoice_id_hash(InvoiceOf(i))] >= 1
              /\ saved' # "none"
              /\ saved' = "ok" => disk' = save_state(disk, StateToSave(cyc, tz), "written")
      ]_vars

\* the first category's query failed, the second one's succeeded and its
\* new invoice was triggered; the cycle is about to save
C6_Witness ==
    /\ pc = "process" /\ cyc.batch = <<>>
    /\ cyc.outcomes = <<"error", "ok">>
    /\ Len(cyc.seen_entries) > Len(disk.seen_invoices)

\* C7: every invoice the authority holds is eventually triggered, transient
\* query failures notwithstanding: once a cycle whose queries all succeeded
\* has saved its state, every invoice issued before it has had its trigger
\* event (later windows start at that cycle's "now", so an invoice missing
\* then is never returned again).
C7_AllTriggeredAfterGoodCycle ==
    [][ ( /\ SaveStep /\ saved' = "ok"
          /\ \A k \in 1..Len(cyc.outcomes) : cyc.outcomes[k] = "ok" )
          => \A i \in Issued : triggered[get_invoice_id_hash(InvoiceOf(i))] >= 1 ]_vars

\* the step is the save of lines 260-266 and the write went through
SavedStep == SaveStep /\ saved' = "ok"

\* the step is the load of lines 208-227
LoadStep == ~cyc.active /\ cyc'.active

\* the entry was marked at most ninety days before the instant clk
WithinRetention(e, clk, z) ==
    _parse_datetime(e.ts, z).t >= QueryInstant(_get_now(clk, z)) - SEEN_INVOICES_TTL_DAYS * 24

\* the ledger reports as seen what a cycle marked: within the cycle, in
\* the file after the save for the entries at positions K (of the
\* in-memory list), and after the load for the entries of the file that
\* are at most ninety days old; and a trigger event is for an identity
\* the ledger did not hold
LedgerKeeps(Kept(_, _)) ==
    /\ (cyc.active /\ cyc'.active) => cyc.seen_hashes \subseteq cyc'.seen_hashes
    /\ \A h \in Digests : triggered'[h] > triggered[h] => h \notin cyc.seen_hashes
    /\ SavedStep =>
         \A k \in 1..Len(cyc.seen_entries) :
            Kept(k, Len(cyc.seen_entries))
              => cyc.seen_entries[k].h \in PersistedHashes(disk')
    /\ LoadStep =>
         \A k \in 1..Len(disk.seen_invoices) :
            WithinRetention(disk.seen_invoices[k], clock, tz)
              => disk.seen_invoices[k].h \in cyc'.seen_hashes

AnyPosition(k, n) == TRUE
NewestOnly(k, n) == k > n - SEEN_CAP

ReauthCount(trace) ==
    Cardinality({ k \in 1..Len(trace) :
                    /\ trace[k] = "authenticate"
                    /\ \E j \in 1..(k - 1) : trace[j] = "request" })

\* the call's trace from its first request on
FromRequest(trace) ==
    IF trace # <<>> /\ trace[1] = "authenticate" THEN Tail(trace) ELSE trace

\* C9: when a downstream call meets a 401 with a refresh token at hand and
\* the refresh succeeds, the call does not invoke authenticate().
C9_RefreshBeforeReauth ==
    (lastCall.saw401 /\ lastCall.refresh_ok) => ReauthCount(lastCall.trace) = 0

\* a call met a 401, refreshed the access token and sent the request again
C9_Witness ==
    /\ lastCall.saw401 /\ lastCall.refresh_ok
    /\ FromRequest(lastCall.trace) = <<"request", "refresh", "request">>

\* C10: after a 401 a downstream call makes at most one refresh, then at
\* most one authenticate(), the latter exactly when the refresh did not
\* succeed; the request is sent again at most once, right after whichever
\* of the two succeeded; there is no third attempt and the cycle at hand
\* is not restarted.
C10_AtMostOneRetry ==
    [][ lastCall'.saw401 =>
          /\ FromRequest(lastCall'.trace) \in
               IF lastCall'.refresh_ok
                 THEN { <<"request", "refresh", "request">> }
                 ELSE { <<"request", "refresh", "authenticate", "request">>,
                        <<"request", "refresh", "authenticate">>,
                        <<"request", "authenticate", "request">>,
                        <<"request", "authenticate">> }
          /\ (lastCall'.outcome = "reauth_failed")
               = (lastCall'.trace[Len(lastCall'.trace)] = "authenticate")
          /\ cyc'.active /\ cyc'.now = cyc.now /\ cyc'.date_from = cyc.date_from
          /\ cyc'.ci = cyc.ci /\ cyc'.seen_entries = cyc.seen_entries
          /\ pc' \in {"process", "upo"} ]_vars

\* a call met a 401, could not refresh, authenticated anew and sent the
\* request again
C10_Witness ==
    /\ lastCall.saw401 /\ ~lastCall.refresh_ok
    /\ FromRequest(lastCall.trace) \in
         { <<"request", "refresh", "authenticate", "request">>,
           <<"request", "authenticate", "request">> }
    /\ cyc.active

\* C11: after revoke_current_session() returns the local session is empty:
\* neither an access token nor a refresh token is held, whatever the DELETE
\* answered.
C11_RevokeClearsSession ==
    lastCall.op = "revoke"
      => ksef.access_token = "none" /\ ksef.refresh_token = "none"

\* C12: when a downstream call meets a 401 and neither the refresh nor the
\* full reauthentication succeeds, the local session is cleared: no access
\* token and no refresh token stay stored.
C12_FailedReauthClearsSession ==
    lastCall.outcome = "reauth_failed"
      => ksef.access_token = "none" /\ ksef.refresh_token = "none"

\* the step is a call of authenticate() on its own
AuthStep == lastCall'.op = "authenticate"

\* the place of a request in the handshake
Rank(req) ==
    CASE req = "challenge" -> 1 [] req = "public-key" -> 2
      [] req = "ksef-token" -> 3 [] req = "status" -> 4 [] req = "redeem" -> 5

\* how many of the requests are req
Count(reqs, req) == Cardinality({ k \in 1..Len(reqs) : reqs[k] = req })

\* the answer to the n-th status poll of a handshake
AnswerAt(a, n) == IF n <= Len(a.polls) THEN a.polls[n] ELSE a.polls[Len(a.polls)]

\* C13: authenticate() issues challenge, token submission, status polls and
\* redeem in this order (the certificate fetch, when the key is not cached,
\* between challenge and submission); each step only after the one before
\* succeeded, the redeem only after a status poll answered 200; a failing
\* step ends the call with failure, with no later request and no second
\* challenge or submission.
C13_HandshakeInOrder ==
    [][ AuthStep =>
          LET reqs == lastCall'.reqs
              a    == lastCall'.script
              n    == Count(reqs, "status")
              keyOk == ksef.pubkey \/ a.pubkey
          IN  /\ reqs[1] = "challenge"
              /\ \A j, k \in 1..Len(reqs) :
                    j < k => \/ Rank(reqs[j]) < Rank(reqs[k])
                             \/ reqs[j] = "status" /\ reqs[k] = "status"
              /\ Count(reqs, "public-key") = (IF a.challenge /\ ~ksef.pubkey THEN 1 ELSE 0)
              /\ Count(reqs, "ksef-token") = (IF a.challenge /\ keyOk THEN 1 ELSE 0)
              /\ (n > 0) = (a.challenge /\ keyOk /\ a.submit)
              /\ Count(reqs, "redeem") = (IF n > 0 /\ AnswerAt(a, n) = "200" THEN 1 ELSE 0)
              /\ (lastCall'.outcome = "ok")
                   => /\ reqs[Len(reqs)] = "redeem"
                      /\ a.redeem.status = "ok"
              /\ (~a.challenge \/ ~keyOk \/ ~a.submit \/ a.redeem.status # "ok")
                   => lastCall'.outcome = "auth_failed" ]_vars

\* a handshake that went through all its steps: challenge, certificate
\* fetch, submission, two status polls, redeem
C13_Witness ==
    /\ lastCall.op = "authenticate" /\ lastCall.outcome = "ok"
    /\ lastCall.reqs = <<"challenge", "public-key", "ksef-token", "status", "status",
                         "redeem">>

\* C14: during status polling a processing code 200 ends the polling with
\* success (the redeem follows), a code 100 is followed by the next poll,
\* and any other code ends authenticate() with failure at once: no further
\* status poll and no redeem.
C14_StatusCodes ==
    [][ (AuthStep /\ Count(lastCall'.reqs, "status") > 0) =>
          LET reqs == lastCall'.reqs
              a    == lastCall'.script
              n    == Count(reqs, "status")
          IN  /\ \A k \in 1..(n - 1) : AnswerAt(a, k) \in {"100", "err"}
              /\ AnswerAt(a, n) = "200" => Count(reqs, "redeem") = 1
              /\ AnswerAt(a, n) = "100" => n = MAX_ATTEMPTS
              /\ AnswerAt(a, n) \notin {"100", "200", "err"}
                   => /\ lastCall'.outcome = "auth_failed"
                      /\ reqs[Len(reqs)] = "status"
                      /\ ksef'.access_token = ksef.access_token
                      /\ ksef'.refresh_token = ksef.refresh_token ]_vars

\* a handshake whose second status poll answered with an unexpected code
\* after an in-progress one
C14_Witness ==
    /\ lastCall.op = "authenticate" /\ lastCall.outcome = "auth_failed"
    /\ lastCall.script.polls = <<"100", "450">>
    /\ Count(lastCall.reqs, "status") = 2

\* C15: in one authenticate() call the delay slept after the k-th status
\* poll (k from 1) is min(2^(k-1), 10) seconds, that is 1, 2, 4, 8, 10 and
\* then 10 for every later attempt, a delay follows every poll but possibly
\* the last, and at most 15 status polls are sent.
C15_BackoffSchedule ==
    [][ AuthStep =>
          LET n      == Count(lastCall'.reqs, "status")
              delays == lastCall'.delays
          IN  /\ n <= 15
              /\ Len(delays) \in {m \in {n - 1, n} : m >= 0}
              /\ \A k \in 1..Len(delays) :
                   delays[k] = (IF k <= 4 THEN 2 ^ (k - 1) ELSE 10) ]_vars

\* a handshake that polled fifteen times and slept the capped delay
C15_Witness ==
    /\ lastCall.op = "authenticate"
    /\ Count(lastCall.reqs, "status") = 15
    /\ Len(lastCall.delays) >= 14
    /\ lastCall.delays[4] = 8 /\ lastCall.delays[5] = 10 /\ lastCall.delays[14] = 10

\* C16: a status poll that fails with a transport or HTTP error does not
\* fail authenticate() by itself: below the fifteenth attempt it is followed,
\* after that attempt's backoff delay, by the next poll; failed and
\* in-progress polls count against the same budget of 15 attempts, and a
\* handshake whose last poll was failed or in progress has used all 15.
C16_PollErrorRetried ==
    [][ (AuthStep /\ Count(lastCall'.reqs, "status") > 0) =>
          LET a      == lastCall'.script
              n      == Count(lastCall'.reqs, "status")
              delays == lastCall'.delays
          IN  /\ \A k \in 1..n :
                   (AnswerAt(a, k) = "err" /\ k < MAX_ATTEMPTS)
                     => /\ k < n
                        /\ Len(delays) >= k
                        /\ delays[k] = Min(2 ^ (k - 1), 10)
              /\ n <= MAX_ATTEMPTS
              /\ AnswerAt(a, n) \in {"100", "err"}
                   => n = MAX_ATTEMPTS /\ lastCall'.outcome = "auth_failed" ]_vars

\* a handshake that succeeded although its first status poll failed
C16_Witness ==
    /\ lastCall.op = "authenticate" /\ lastCall.outcome = "ok"
    /\ lastCall.script.polls = <<"err", "200">>
    /\ lastCall.delays = <<1>>

\* the access tokens the server handed out during a step of the client
IssuedIn(rec) ==
    CASE rec.op = "authenticate" -> {rec.script.redeem.access}
      [] rec.op = "revoke"       -> {}
      [] OTHER -> {rec.script.pre.redeem.access, rec.script.refresh.access,
                   rec.script.reauth.redeem.access}

\* C17: authenticate() succeeds only when the redeem request was answered
\* with an access token, which is then the stored one; a failed redeem or
\* an answer without an access token makes it fail; and whatever the client
\* does, the stored access token is absent, unchanged, or one that a redeem
\* or refresh response of that step carried.
C17_TokenFromRedeem ==
    [][ /\ AuthStep =>
             LET a    == lastCall'.script
                 reqs == lastCall'.reqs
             IN  /\ lastCall'.outcome = "ok"
                      => /\ reqs[Len(reqs)] = "redeem"
                         /\ a.redeem.status = "ok"
                         /\ a.redeem.access # "none"
                         /\ ksef'.access_token = a.redeem.access
                 /\ (a.redeem.status # "ok" \/ a.redeem.access = "none")
                      => lastCall'.outcome = "auth_failed"
        /\ ksef'.access_token
             \in {"none", ksef.access_token} \cup IssuedIn(lastCall') ]_vars

\* a handshake that failed because the redeem answer had no access token
C17_Witness ==
    /\ lastCall.op = "authenticate" /\ lastCall.outcome = "auth_failed"
    /\ lastCall.reqs[Len(lastCall.reqs)] = "redeem"
    /\ lastCall.script.redeem.status = "ok"
    /\ lastCall.script.redeem.access = "none"

\* a step of a downstream call
CallStep == lastCall'.op \in {"metadata", "xml", "upo"}

\* the call of this step began with authenticate() because no access token
\* was held
PreAuth == lastCall'.trace # <<>> /\ lastCall'.trace[1] = "authenticate"

\* C18: a successful refresh stores the access token of the refresh answer
\* and leaves the refresh token as it was before the refresh; a successful
\* reauthentication, like a successful authenticate(), stores the access
\* token and the refresh token of its redeem answer.
C18_RefreshKeepsRefreshToken ==
    [][ /\ (CallStep /\ lastCall'.refresh_ok) =>
             LET s == lastCall'.script
             IN  /\ ksef'.access_token = s.refresh.access
                 /\ ksef'.refresh_token = (IF PreAuth THEN s.pre.redeem.refresh
                                           ELSE ksef.refresh_token)
        /\ (CallStep /\ lastCall'.saw401 /\ ~lastCall'.refresh_ok
              /\ lastCall'.outcome # "reauth_failed") =>
             LET s == lastCall'.script
             IN  /\ ksef'.access_token = s.reauth.redeem.access
                 /\ ksef'.refresh_token = s.reauth.redeem.refresh
        /\ (AuthStep /\ lastCall'.outcome = "ok") =>
             /\ ksef'.access_token = lastCall'.script.redeem.access
             /\ ksef'.refresh_token = lastCall'.script.redeem.refresh ]_vars

\* a call refreshed a session that an earlier handshake had opened: the
\* access token is the refreshed one, the refresh token still the redeemed
C18_Witness ==
    /\ lastCall.op \in {"metadata", "xml", "upo"}
    /\ lastCall.refresh_ok /\ lastCall.trace[1] = "request"
    /\ ksef.access_token = "A2" /\ ksef.refresh_token = "R3"

\* the authenticate() runs of a call before its first request
AuthBeforeRequest(trace) ==
    Cardinality({ k \in 1..Len(trace) :
                    /\ trace[k] = "authenticate"
                    /\ \A j \in 1..(k - 1) : trace[j] # "request" })

\* C19: a downstream call made without an access token runs authenticate()
\* once, first, and sends its request with the session obtained, which it
\* keeps; a call made with an access token that meets no 401 runs no
\* authenticate() and leaves the session as it was; and between the calls,
\* from category to category and from cycle to cycle of one process, the
\* session does not change.
C19_AuthenticateOnceThenCached ==
    [][ /\ CallStep =>
             LET trace == lastCall'.trace
             IN  /\ ksef.access_token = "none"
                      => /\ PreAuth
                         /\ AuthBeforeRequest(trace) = 1
                         /\ lastCall'.outcome # "auth_failed"
                              => Len(trace) >= 2 /\ trace[2] = "request"
                         /\ (lastCall'.outcome # "auth_failed" /\ ~lastCall'.saw401)
                              => /\ ksef'.access_token # "none"
                                 /\ trace = <<"authenticate", "request">>
                 /\ ksef.access_token # "none"
                      => /\ AuthBeforeRequest(trace) = 0
                         /\ ~lastCall'.saw401
                              => /\ trace = <<"request">>
                                 /\ ksef' = ksef
        /\ (~CallStep /\ pc # "exited" /\ pc' # "exited") => ksef' = ksef ]_vars

\* a query of a later cycle was sent with the session of an earlier one
C19_Witness ==
    /\ lastCall.op = "metadata" /\ lastCall.trace = <<"request">>
    /\ disk # NoFile /\ cyc.ci = 1
    /\ ksef.access_token = "A1"

\* the instant an ISO 8601 string denotes, in hours since the epoch
InstantOf(s) == IF s.off = <<>> THEN s.wall ELSE s.wall - s.off[1]

\* the step begins a cycle: check_for_new_invoices, lines 208-220
CycleBegins == pc = "wait" /\ pc' = "query"

\* C20: a cycle that finds no persisted last_check queries from 24 hours
\* before its start up to its start; a cycle that finds one queries from
\* the instant persisted up to its start; every category of the cycle is
\* queried with that one window; and a cycle that is persisted records the
\* end of its window, so the next window begins where it ended.
C20_WindowFromLastCheck ==
    [][ /\ CycleBegins =>
             /\ QueryInstant(cyc'.now) = clock
             /\ QueryInstant(cyc'.date_from) =
                  (IF disk.exists /\ disk.last_check # <<>>
                     THEN InstantOf(disk.last_check[1])
                     ELSE clock - 24)
        /\ (cyc.active /\ cyc'.active) =>
             cyc'.now = cyc.now /\ cyc'.date_from = cyc.date_from
        /\ (pc = "query" /\ lastCall'.op = "metadata" /\ lastCall'.outcome = "ok") =>
             cyc'.batch = QueryMetadata(authority, subject_types[cyc.ci],
                                        QueryInstant(cyc.date_from),
                                        QueryInstant(cyc.now))
        /\ (SaveStep /\ saved' = "ok") =>
             /\ disk'.last_check # <<>>
             /\ InstantOf(disk'.last_check[1]) = QueryInstant(cyc.now) ]_vars

\* the second category of a later cycle is queried with the window that
\* begins at the end of the cycle persisted before
C20_Witness ==
    /\ cyc.active /\ cyc.ci = 2 /\ lastCall.op = "metadata"
    /\ disk.exists /\ disk.last_check # <<>>
    /\ InstantOf(disk.last_check[1]) = 0
    /\ QueryInstant(cyc.date_from) = 0 /\ QueryInstant(cyc.now) = 1

\* the cycle has an invoice of the batch at hand (line 234)
AtHand == pc = "process" /\ cyc.batch # <<>>

\* the digest of the invoice at hand
HeadDigest == get_invoice_id_hash(Head(cyc.batch))

\* the digests a ledger holds
LedgerDigests(entries) == { entries[k].h : k \in 1..Len(entries) }

\* no two entries of the ledger carry the same digest
NoDuplicate(entries) ==
    \A j, k \in 1..Len(entries) : entries[j].h = entries[k].h => j = k

\* C21: an invoice whose digest the ledger holds already, loaded from the
\* state file or appended earlier in the cycle (same batch or an earlier
\* category), is skipped: no trigger event, no new entry; an invoice whose
\* digest the ledger does not hold gets one trigger event and one entry;
\* so neither the ledger in memory nor the persisted one ever holds two
\* entries with one digest.
C21_SeenIsSkipped ==
    [][ /\ (AtHand /\ HeadDigest \in LedgerDigests(cyc.seen_entries)) =>
             /\ triggered' = triggered
             /\ cyc'.seen_entries = cyc.seen_entries
             /\ cyc'.batch = Tail(cyc.batch)
        /\ (AtHand /\ HeadDigest \notin LedgerDigests(cyc.seen_entries)) =>
             /\ triggered' = [triggered EXCEPT ![HeadDigest] = @ + 1]
             /\ Len(cyc'.seen_entries) = Len(cyc.seen_entries) + 1
             /\ cyc'.seen_entries[Len(cyc'.seen_entries)].h = HeadDigest
        /\ NoDuplicate(cyc'.seen_entries)
        /\ NoDuplicate(disk'.seen_invoices) ]_vars

\* the first batch of a first run held the same invoice twice; both are
\* done, one trigger event was sent and the ledger holds one entry
C21_Witness ==
    /\ disk = NoFile /\ pc = "process" /\ cyc.ci = 1 /\ cyc.batch = <<>>
    /\ Len(authority["Subject1"]) = 2
    /\ authority["Subject1"][1] = authority["Subject1"][2]
    /\ triggered[get_invoice_id_hash(authority["Subject1"][1])] = 1
    /\ Len(cyc.seen_entries) = 1

\* the identifier the deduplication goes by: the ksefReferenceNumber when
\* the invoice has one, else the ksefNumber
IdentityOf(v) == IF v.ref # <<>> THEN v.ref ELSE v.num

\* C22: the ledger entry appended for an invoice carries the SHA-256 of its
\* ksefReferenceNumber whenever it has one and of its ksefNumber only when
\* it has none, and an invoice is skipped only when the digest of that
\* identifier is in the ledger: an invoice with both identifiers is
\* identified by the primary one alone.
C22_PrimaryThenSecondary ==
    [][ AtHand =>
          LET v == Head(cyc.batch)
              n == Len(cyc'.seen_entries)
          IN  /\ n > Len(cyc.seen_entries)
                   => cyc'.seen_entries[n].h = sha256(IdentityOf(v))
              /\ n = Len(cyc.seen_entries)
                   => sha256(IdentityOf(v)) \in LedgerDigests(cyc.seen_entries) ]_vars

\* a first run's batch held an invoice with a ksefNumber only and then one
\* with both identifiers whose ksefNumber is the same: both were notified
C22_Witness ==
    /\ disk = NoFile /\ pc = "process" /\ cyc.ci = 1 /\ cyc.batch = <<>>
    /\ authority["Subject1"] = << [id |-> 2, ref |-> <<>>, num |-> K2],
                                  [id |-> 1, ref |-> K1, num |-> K2] >>
    /\ triggered[sha256(K1)] = 1 /\ triggered[sha256(K2)] = 1
    /\ Len(cyc.seen_entries) = 2

\* C23: after load_state() the ledger holds no entry marked more than
\* ninety days before the load, and every entry of the file marked within
\* the last ninety days is in it.
C23_LoadDropsExpired ==
    [][ LoadStep =>
          /\ \A k \in 1..Len(cyc'.seen_entries) :
               InstantOf(cyc'.seen_entries[k].ts) >= clock - SEEN_INVOICES_TTL_DAYS * 24
          /\ \A k \in 1..Len(disk.seen_invoices) :
               (disk.valid /\ InstantOf(disk.seen_invoices[k].ts)
                                >= clock - SEEN_INVOICES_TTL_DAYS * 24)
                 => disk.seen_invoices[k].h \in LedgerDigests(cyc'.seen_entries) ]_vars

\* C24: the ledger a cycle writes holds at most 1000 entries: all of the
\* cycle's entries when there are at most 1000, and otherwise the last 1000
\* of them, in the order they were appended, whatever their timestamps.
C24_SaveKeepsNewestThousand ==
    [][ SavedStep =>
          LET mem  == cyc.seen_entries
              file == disk'.seen_invoices
          IN  /\ Len(file) = Min(Len(mem), 1000)
              /\ \A k \in 1..Len(file) : file[k] = mem[Len(mem) - Len(file) + k] ]_vars

\* a cycle with more than 1000 entries was saved: the file holds 1000 and
\* the entry of invoice 1, marked first, is not among them
C24_Witness ==
    /\ saved = "ok" /\ Len(disk.seen_invoices) = 1000
    /\ triggered[get_invoice_id_hash(InvoiceOf(1))] >= 1
    /\ get_invoice_id_hash(InvoiceOf(1)) \notin PersistedHashes(disk)

\* the step is a shutdown signal being handled
ShutdownStep == lastCall'.op = "shutdown"

\* the positions of `what` in a trace
PositionsOf(trace, what) == { k \in 1..Len(trace) : trace[k] \in what }

\* C25: a shutdown signal, wherever it reaches the process (the sleep of
\* the status polling included), makes it call revoke_current_session()
\* first, which sends the DELETE when an access token is held; only then
\* are the metrics marked stopped and the shutdown notification sent, and
\* the process exits; a DELETE that fails changes none of that.
C25_RevokeBeforeExit ==
    [][ ShutdownStep =>
          LET t == lastCall'.trace
              s == lastCall'.script
          IN  /\ t[1] = "revoke_current_session"
              /\ ksef.access_token # "none" => t[2] = "DELETE"
              /\ \A j \in PositionsOf(t, {"revoke_current_session", "DELETE"}) :
                   \A k \in PositionsOf(t, {"metrics.shutdown", "send_notification",
                                            "sys.exit"}) : j < k
              /\ s.metrics => PositionsOf(t, {"metrics.shutdown"}) # {}
              /\ PositionsOf(t, {"send_notification"}) # {}
              /\ t[Len(t)] = "sys.exit"
              /\ pc' = "exited"
              /\ ksef'.access_token = "none" ]_vars

\* the signal arrived in the sleep of a reauthentication's status polling,
\* the DELETE failed, and the process stopped its metrics, sent the
\* notification and exited
C25_Witness ==
    /\ pc = "exited" /\ lastCall.op = "shutdown"
    /\ lastCall.script = [at |-> "backoff", metrics |-> TRUE, answer |-> "err"]
    /\ lastCall.trace = <<"revoke_current_session", "DELETE", "metrics.shutdown",
                          "send_notification", "sys.exit">>

\* C26: a cycle that fails does not end the process: when
\* check_for_new_invoices raises, the run loop logs the exception and calls
\* send_error_notification; when the authentication failed, the failure is
\* logged and the cycle returns; in both cases, as after a good cycle, the
\* loop goes on to wait_until_next_run.
C26_LoopSurvivesFailure ==
    [][ pc = "check" =>
          /\ pc' = "sleep"
          /\ lastCall'.op = "check"
          /\ lastCall'.outcome = "raised"
               => lastCall'.logged /\ lastCall'.error_notification
          /\ lastCall'.outcome = "auth_failed" => lastCall'.logged ]_vars

\* a cycle raised, the error notification reached no channel, and the loop
\* is at its wait
C26_Witness ==
    /\ pc = "sleep" /\ lastCall.op = "check" /\ lastCall.outcome = "raised"
    /\ lastCall.error_notification /\ lastCall.trace = <<"failed">>

\* C27: whenever a call's refresh_access_token() reported success, the
\* stored access token is the non-empty token of the refresh response: a
\* response without an access token is not taken for a success and leaves
\* the stored access token alone.
C27_RefreshNeedsToken ==
    [][ (CallStep /\ lastCall'.refresh_ok) =>
          /\ lastCall'.script.refresh.access # "none"
          /\ ksef'.access_token = lastCall'.script.refresh.access
          /\ ksef'.access_token # "none" ]_vars

\* the invoices the cycle has gone through before the one at hand: the
\* batches of the earlier categories and the part of this batch done
SeenThisCycle ==
    LET full == authority[subject_types[cyc.ci]]
        done == Len(full) - Len(cyc.batch)
    IN  UNION { { authority[subject_types[c]][k] :
                    k \in 1..Len(authority[subject_types[c]]) } : c \in 1..(cyc.ci - 1) }
        \cup { full[k] : k \in 1..done }

\* C28: an invoice is skipped as a duplicate only if it is itself on record:
\* its digest was in the state file, or the same invoice came earlier in
\* the cycle; an invoice never seen is not skipped because of a different
\* invoice, whether or not it carries a ksefReferenceNumber or ksefNumber.
C28_NoForeignDuplicate ==
    [][ (AtHand /\ HeadDigest \in cyc.seen_hashes) =>
          \/ HeadDigest \in LedgerDigests(disk.seen_invoices)
          \/ \E v \in SeenThisCycle : v.id = Head(cyc.batch).id ]_vars

\* C29: a cycle that finds the state file missing, unreadable or not valid
\* JSON starts from the default state, as a first run: empty ledger, window
\* from 24 hours before now; and a save whose write fails ends the cycle
\* like any other save and leaves the file as it was, so that the next
\* cycle loads what was persisted before.
C29_StateFileFailuresTolerated ==
    [][ /\ (CycleBegins /\ (~disk.exists \/ ~disk.valid)) =>
             /\ cyc'.seen_entries = <<>> /\ cyc'.seen_hashes = {}
             /\ QueryInstant(cyc'.now) = clock
             /\ QueryInstant(cyc'.date_from) = clock - LOOKBACK_HOURS
        /\ (SaveStep /\ saved' = "failed") =>
             /\ pc' = "wait"
             /\ load_state(disk', clock) = load_state(disk, clock) ]_vars

\* every configured time of every full day gone by has had its cycle
NoTimeSkipped ==
    \A d \in 1..(DateOf(clock) - 1) :
       \A k \in 1..Len(sched.times) : <<d, sched.times[k]>> \in ran

\* C30: in daily mode, with should_run() asked after every cycle and every
\* 60-second wait: the first call returns True whatever the time; a later
\* True is for a configured time that the current time has reached and
\* that had no True yet on that day, and starts a cycle; and no configured
\* time of a day the process ran through is left without its cycle.
C30_EachTimeOncePerDay ==
    [][ /\ pc = "should_run" =>
             /\ sched.last_run = <<>> => lastCall'.ret
             /\ lastCall'.ret => pc' = "check"
             /\ (lastCall'.ret /\ sched.last_run # <<>>) =>
                  /\ lastCall'.key # <<>>
                  /\ \E k \in 1..Len(sched.times) : sched.times[k] = lastCall'.key[1]
                  /\ TimeOf(clock) >= lastCall'.key[1]
                  /\ <<DateOf(clock), lastCall'.key[1]>> \notin ran
        /\ NoTimeSkipped' ]_vars

=============================================================================
